---- MODULE Spec2Model ----
(***************************************************************************)
(* tools/mkwallpaper/raw_convert.py: PNG/JPEG -> XRGB8888 raw converter.   *)
(*                                                                         *)
(* The model follows one process at a time from its command line through  *)
(* main (lines 44-52) and convert (lines 25-41), one step per statement    *)
(* that touches a file, a handle or a stream, over a small file system     *)
(* that outlives the process, so that several invocations can be chained.  *)
(***************************************************************************)
EXTENDS Integers, Sequences, FiniteSets, TLC

VARIABLES
    argv,       \* sys.argv of the running process
    pc,         \* position of the process
    inpath,     \* convert's inpath
    outpath,    \* convert's outpath
    width,      \* convert's width  (an Opt: None or Some(n))
    height,     \* convert's height (an Opt)
    img,        \* convert's img
    resized,    \* whether line 29 was executed by this process
    w, h,       \* convert's w, h (line 31)
    x, y,       \* the loop variables of lines 35-36
    fs,         \* the files at the output paths (the bytes handed to f count
                \* as written)
    fs0,        \* fs as it was when the process was started
    pos,        \* write position of f
    inHandle,   \* the handle Image.open holds on the input file
    outHandle,  \* the handle f of line 34
    stdout,     \* what the process printed to standard output
    stderr,     \* what the process printed to standard error
    exitcode,   \* exit status, -1 while running
    failure,    \* the exception that ended the process, "none" if none
    runs,       \* number of processes started so far
    ref         \* a remembered earlier successful conversion

vars == <<argv, pc, inpath, outpath, width, height, img, resized, w, h, x, y,
          fs, fs0, pos, inHandle, outHandle, stdout, stderr, exitcode,
          failure, runs, ref>>

-----------------------------------------------------------------------------
(* Bounds *)

\* number of invocations of the program in one behaviour
MaxRuns == 2

-----------------------------------------------------------------------------
(* Values *)

None == [some |-> FALSE, val |-> 0]
Some(n) == [some |-> TRUE, val |-> n]

\* Python truthiness of an optional int: None and 0 are false (line 28)
TruthyNotNone(o) == o.some
Truthy(o) == o.some /\ o.val # 0

Prog == "raw_convert.py"

\* input files: what Image.open finds at each path.  a.png is a 2x2 RGBA
\* image; bad.png is an image file cut short, on which the decode of line 26
\* raises
InPaths == {"a.png", "bad.png"}

InputFile(p) ==
    CASE p = "a.png" ->
           [ok |-> TRUE, mode |-> "RGBA", w |-> 2, h |-> 2,
            px |-> << << <<255, 0, 0, 255>>, <<18, 52, 86, 128>> >>,
                      << <<0, 255, 1, 0>>,   <<1, 2, 3, 7>> >> >>]
      [] OTHER ->
           [ok |-> FALSE, mode |-> "", w |-> 0, h |-> 0, px |-> <<>>]

\* output paths; the last one lies in a directory that does not exist
OutPaths == {"out.raw", "wall.raw", "nodir/out.raw"}
Writable(p) == p # "nodir/out.raw"

Absent == [exists |-> FALSE, data |-> <<>>]
File(d) == [exists |-> TRUE, data |-> d]

\* an older, longer file
Stale == File([i \in 1..18 |-> 238])

\* numeric command-line arguments, as the characters of the string
NumTokens == { <<"0">>, <<"1">>, <<"2">>, <<"-", "1">>, <<"x">> }
\* a width given without a height
LoneTokens == { <<"1">>, <<"x">> }

NoImage == [w |-> 0, h |-> 0, px |-> <<>>]

-----------------------------------------------------------------------------
(* int() of lines 49-50 *)

DigitVal(c) ==
    CASE c = "0" -> 0 [] c = "1" -> 1 [] c = "2" -> 2 [] c = "3" -> 3
      [] c = "4" -> 4 [] c = "5" -> 5 [] c = "6" -> 6 [] c = "7" -> 7
      [] c = "8" -> 8 [] c = "9" -> 9 [] OTHER -> -1

RECURSIVE Digits(_)
\* value of a string of decimal digits, -1 if some character is no digit
Digits(s) ==
    IF Len(s) = 0 THEN 0
    ELSE LET hd == Digits(SubSeq(s, 1, Len(s) - 1))
             d  == DigitVal(s[Len(s)])
         IN  IF hd < 0 \/ d < 0 THEN -1 ELSE 10 * hd + d

\* int(s): [ok, val]; not ok is ValueError
ParseInt(s) ==
    LET signed == Len(s) > 0 /\ s[1] \in {"-", "+"}
        body   == IF signed THEN Tail(s) ELSE s
        v      == Digits(body)
    IN  IF Len(body) = 0 \/ v < 0 THEN [ok |-> FALSE, val |-> 0]
        ELSE [ok |-> TRUE, val |-> IF signed /\ s[1] = "-" THEN -v ELSE v]

-----------------------------------------------------------------------------
(* Image.open(inpath).convert("RGB"), line 26 *)

\* flatten one pixel to RGB: the first three channels
ToRGB(p) == <<p[1], p[2], p[3]>>

Decode(file) ==
    [w |-> file.w, h |-> file.h,
     px |-> [r \in 1..file.h |-> [c \in 1..file.w |-> ToRGB(file.px[r][c])]]]

-----------------------------------------------------------------------------
(* img.resize((width, height), Image.LANCZOS), line 29.  For sizes 1 and 2 *)
(* the normalised Lanczos kernel leaves a row of the same length alone,    *)
(* repeats the only pixel when a row of 1 grows to 2, and gives both       *)
(* pixels weight 1/2 (rounded half up) when a row of 2 shrinks to 1.  The  *)
(* horizontal pass runs first, then the vertical.                          *)

Mean(a, b) == (a + b + 1) \div 2
MeanPx(p, q) == <<Mean(p[1], q[1]), Mean(p[2], q[2]), Mean(p[3], q[3])>>

\* resample one row (or column) of pixels to length n
Resample(row, n) ==
    IF Len(row) = n THEN row
    ELSE IF Len(row) = 1 THEN [i \in 1..n |-> row[1]]
    ELSE << MeanPx(row[1], row[2]) >>

HPass(im, nw) ==
    [w |-> nw, h |-> im.h,
     px |-> [r \in 1..im.h |-> Resample(im.px[r], nw)]]

VPass(im, nh) ==
    LET col(c) == Resample([r \in 1..im.h |-> im.px[r][c]], nh)
    IN  [w |-> im.w, h |-> nh,
         px |-> [r \in 1..nh |-> [c \in 1..im.w |-> col(c)[r]]]]

\* the library rejects a size below 1 with ValueError
ResizeOk(nw, nh) == nw >= 1 /\ nh >= 1

ResizeSwapped(im, nw, nh) == HPass(VPass(im, nw), nh)
Resize(im, nw, nh) == VPass(HPass(im, nw), nh)

-----------------------------------------------------------------------------
(* struct.pack("<I", (r << 16) | (g << 8) | b), line 39 *)

\* the channels are bytes, so the shifted fields do not overlap and | is +
Word(r, g, b) == r * 65536 + g * 256 + b

\* "<I": four bytes, least significant first
LE32(v) == << v % 256, (v \div 256) % 256, (v \div 65536) % 256,
              (v \div 16777216) % 256 >>
BE32(v) == << (v \div 16777216) % 256, (v \div 65536) % 256,
              (v \div 256) % 256, v % 256 >>
LE24(v) == << v % 256, (v \div 256) % 256, (v \div 65536) % 256 >>

PackBigEndian(r, g, b) == BE32(Word(r, g, b))
PackThreeBytes(r, g, b) == LE24(Word(r, g, b))
Pack(r, g, b) == LE32(Word(r, g, b))

-----------------------------------------------------------------------------
(* Files *)

\* open(outpath, "wb"): create or truncate, position 0
OpenAppend(file) == [file |-> File(file.data), pos |-> Len(file.data)]
OpenUpdate(file) == [file |-> File(file.data), pos |-> 0]
OpenWB(file) == [file |-> File(<<>>), pos |-> 0]

\* f.write(bytes) at position p: overwrite, extending the file as needed
WriteAt(data, p, bytes) ==
    [i \in 1..(IF p + Len(bytes) > Len(data) THEN p + Len(bytes) ELSE Len(data))
        |-> IF i > p /\ i <= p + Len(bytes) THEN bytes[i - p] ELSE data[i]]

-----------------------------------------------------------------------------
(* Messages on the standard streams *)

Usage == [kind |-> "usage", w |-> 0, h |-> 0, nbytes |-> 0, path |-> ""]
Traceback == [kind |-> "traceback", w |-> 0, h |-> 0, nbytes |-> 0, path |-> ""]
Summary(ww, hh, p) ==
    [kind |-> "summary", w |-> ww, h |-> hh, nbytes |-> ww * hh * 4, path |-> p]

\* ref: "off" (nothing is ever remembered), "armed" (nothing remembered yet)
\* or "set" (the arguments and the output bytes of one successful convert)
RefOff == [state |-> "off", inpath |-> "", width |-> None, height |-> None,
           data |-> <<>>]
RefArmed == [state |-> "armed", inpath |-> "", width |-> None,
             height |-> None, data |-> <<>>]

-----------------------------------------------------------------------------
(* The command lines *)

Argvs ==
    { <<Prog>> }
    \cup { <<Prog, i>> : i \in InPaths }
    \cup { <<Prog, i, o>> : i \in InPaths, o \in OutPaths }
    \cup { <<Prog, i, o, t>> : i \in InPaths, o \in OutPaths, t \in LoneTokens }
    \cup { <<Prog, i, o, t, u>> :
             i \in InPaths, o \in OutPaths, t \in NumTokens, u \in NumTokens }

\* lines 49-50: [ok, opt]; not ok is the ValueError of int()
WidthArgOffByOne(a) ==
    IF Len(a) > 3
    THEN LET n == ParseInt(a[4]) IN [ok |-> n.ok, opt |-> Some(n.val)]
    ELSE [ok |-> TRUE, opt |-> None]
WidthArg(a) ==
    IF Len(a) > 4
    THEN LET n == ParseInt(a[4]) IN [ok |-> n.ok, opt |-> Some(n.val)]
    ELSE [ok |-> TRUE, opt |-> None]
HeightArg(a) ==
    IF Len(a) > 4
    THEN LET n == ParseInt(a[5]) IN [ok |-> n.ok, opt |-> Some(n.val)]
    ELSE [ok |-> TRUE, opt |-> None]

-----------------------------------------------------------------------------
(* Initial state: no process yet; out.raw may hold an older, longer file *)

InitWith(r) ==
    /\ argv = <<Prog>>
    /\ pc = "idle"
    /\ inpath = "" /\ outpath = ""
    /\ width = None /\ height = None
    /\ img = NoImage
    /\ resized = FALSE
    /\ w = 0 /\ h = 0 /\ x = 0 /\ y = 0
    /\ \E f \in {Absent, Stale} :
          fs = [p \in OutPaths |-> IF p = "out.raw" THEN f ELSE Absent]
    /\ fs0 = fs
    /\ pos = 0
    /\ inHandle = "none" /\ outHandle = "none"
    /\ stdout = <<>> /\ stderr = <<>>
    /\ exitcode = -1
    /\ failure = "none"
    /\ runs = 0
    /\ ref = r

Init == InitWith(RefOff)

\* the same program, with one successful conversion kept for comparison
InitCompare == InitWith(RefArmed)

-----------------------------------------------------------------------------
(* A process is started with command line a *)

Invoke(a) ==
    /\ pc \in {"idle", "exited"}
    /\ runs < MaxRuns
    /\ runs' = runs + 1
    /\ argv' = a
    /\ pc' = "main"
    /\ inpath' = "" /\ outpath' = ""
    /\ width' = None /\ height' = None
    /\ img' = NoImage
    /\ resized' = FALSE
    /\ w' = 0 /\ h' = 0 /\ x' = 0 /\ y' = 0
    /\ fs0' = fs
    /\ pos' = 0
    /\ inHandle' = "none" /\ outHandle' = "none"
    /\ stdout' = <<>> /\ stderr' = <<>>
    /\ exitcode' = -1
    /\ failure' = "none"
    /\ UNCHANGED <<fs, ref>>

(* lines 45-47: too few arguments *)
MainUsage ==
    /\ pc = "main"
    /\ Len(argv) < 3
    /\ stdout' = Append(stdout, Usage)
    /\ exitcode' = 1
    /\ pc' = "exited"
    /\ UNCHANGED <<argv, inpath, outpath, width, height, img, resized, w, h,
                   x, y, fs, fs0, pos, inHandle, outHandle, stderr, failure,
                   runs, ref>>

(* lines 49-52: parse width and height, call convert *)
MainConvert ==
    /\ pc = "main"
    /\ Len(argv) >= 3
    /\ LET wa == WidthArg(argv)
           ha == HeightArg(argv)
       IN  IF wa.ok /\ ha.ok
           THEN /\ inpath' = argv[2]
                /\ outpath' = argv[3]
                /\ width' = wa.opt
                /\ height' = ha.opt
                /\ pc' = "decode"
                /\ UNCHANGED failure
           ELSE /\ failure' = "ValueError"
                /\ pc' = "raised"
                /\ UNCHANGED <<inpath, outpath, width, height>>
    /\ UNCHANGED <<argv, img, resized, w, h, x, y, fs, fs0, pos, inHandle,
                   outHandle, stdout, stderr, exitcode, runs, ref>>

(* convert with the output opened before the input is decoded *)
LoadImageAfterOpen ==
    /\ pc = "decode"
    /\ LET file == InputFile(inpath)
       IN  IF file.ok
           THEN /\ img' = Decode(file)
                /\ pc' = "resize"
                /\ UNCHANGED failure
           ELSE /\ failure' = "decode"
                /\ pc' = "raised"
                /\ UNCHANGED img
    /\ fs' = IF Writable(outpath)
             THEN [fs EXCEPT ![outpath] = File(<<>>)]
             ELSE fs
    /\ inHandle' \in {"held", "released"}
    /\ UNCHANGED <<argv, inpath, outpath, width, height, resized, w, h, x, y,
                   fs0, pos, outHandle, stdout, stderr, exitcode, runs, ref>>

(* line 26: Image.open(inpath).convert("RGB").  The handle Image.open      *)
(* acquires is not bound to a with block and never closed by convert: the  *)
(* library or the garbage collector may or may not have released it when   *)
(* the statement ends.                                                     *)
LoadImage ==
    /\ pc = "decode"
    /\ LET file == InputFile(inpath)
       IN  IF file.ok
           THEN /\ img' = Decode(file)
                /\ pc' = "resize"
                /\ UNCHANGED failure
           ELSE /\ failure' = "decode"
                /\ pc' = "raised"
                /\ UNCHANGED img
    /\ inHandle' \in {"held", "released"}
    /\ UNCHANGED <<argv, inpath, outpath, width, height, resized, w, h, x, y,
                   fs, fs0, pos, outHandle, stdout, stderr, exitcode, runs,
                   ref>>

(* the image file object is finalized *)
Finalize ==
    /\ inHandle = "held"
    /\ pc # "exited"
    /\ inHandle' = "released"
    /\ UNCHANGED <<argv, pc, inpath, outpath, width, height, img, resized, w,
                   h, x, y, fs, fs0, pos, outHandle, stdout, stderr, exitcode,
                   failure, runs, ref>>

(* lines 28-32 *)
ResizeImage ==
    /\ pc = "resize"
    /\ IF Truthy(width) /\ Truthy(height)
       THEN IF ResizeOk(width.val, height.val)
            THEN /\ img' = Resize(img, width.val, height.val)
                 /\ resized' = TRUE
                 /\ w' = img'.w /\ h' = img'.h
                 /\ pc' = "open"
                 /\ UNCHANGED failure
            ELSE /\ failure' = "resize"
                 /\ pc' = "raised"
                 /\ UNCHANGED <<img, resized, w, h>>
       ELSE /\ w' = img.w /\ h' = img.h
            /\ pc' = "open"
            /\ UNCHANGED <<img, resized, failure>>
    /\ UNCHANGED <<argv, inpath, outpath, width, height, x, y, fs, fs0, pos,
                   inHandle, outHandle, stdout, stderr, exitcode, runs, ref>>

(* line 34: open(outpath, "wb") *)
OpenOutput ==
    /\ pc = "open"
    /\ IF Writable(outpath)
       THEN LET o == OpenWB(fs[outpath])
            IN  /\ fs' = [fs EXCEPT ![outpath] = o.file]
                /\ pos' = o.pos
                /\ outHandle' = "held"
                /\ pc' = "loop"
                /\ UNCHANGED failure
       ELSE /\ failure' = "open"
            /\ pc' = "raised"
            /\ UNCHANGED <<fs, pos, outHandle>>
    /\ x' = 0 /\ y' = 0
    /\ UNCHANGED <<argv, inpath, outpath, width, height, img, resized, w, h,
                   fs0, inHandle, stdout, stderr, exitcode, runs, ref>>

(* lines 35-39: one iteration of the inner loop *)
WritePixel ==
    /\ pc = "loop"
    /\ y < h
    /\ LET p == img.px[y + 1][x + 1]
           bytes == Pack(p[1], p[2], p[3])
       IN  /\ fs' = [fs EXCEPT ![outpath] = File(WriteAt(@.data, pos, bytes))]
           /\ pos' = pos + Len(bytes)
    /\ IF x + 1 < w
       THEN x' = x + 1 /\ y' = y
       ELSE x' = 0 /\ y' = y + 1
    /\ UNCHANGED <<argv, pc, inpath, outpath, width, height, img, resized, w,
                   h, fs0, inHandle, outHandle, stdout, stderr, exitcode,
                   failure, runs, ref>>

(* line 39 raises (the device is full, say): the with block releases f *)
WriteError ==
    /\ pc = "loop"
    /\ y < h
    /\ failure' = "write"
    /\ outHandle' = "released"
    /\ pc' = "raised"
    /\ UNCHANGED <<argv, inpath, outpath, width, height, img, resized, w, h,
                   x, y, fs, fs0, pos, inHandle, stdout, stderr, exitcode,
                   runs, ref>>

(* the loops are exhausted: the with block releases f, line 41 prints *)
CloseOutput ==
    /\ pc = "loop"
    /\ y >= h
    /\ outHandle' = "released"
    /\ stdout' = Append(stdout, Summary(w, h, outpath))
    /\ pc' = "returned"
    /\ UNCHANGED <<argv, inpath, outpath, width, height, img, resized, w, h,
                   x, y, fs, fs0, pos, inHandle, stderr, exitcode, failure,
                   runs, ref>>

(* the process ends: status 0 after convert returned, a traceback on       *)
(* standard error and status 1 after an uncaught exception; the operating  *)
(* system closes what is still open.  A successful conversion may be       *)
(* remembered for comparison with later ones.                              *)
Exit ==
    /\ pc \in {"returned", "raised"}
    /\ pc' = "exited"
    /\ IF pc = "returned"
       THEN /\ exitcode' = 0
            /\ UNCHANGED stderr
            /\ ref' \in IF ref.state # "armed" THEN {ref}
                        ELSE {ref, [state |-> "set", inpath |-> inpath,
                                    width |-> width, height |-> height,
                                    data |-> fs[outpath].data]}
       ELSE /\ exitcode' = 1
            /\ stderr' = Append(stderr, Traceback)
            /\ UNCHANGED ref
    /\ inHandle' = IF inHandle = "held" THEN "released" ELSE inHandle
    /\ UNCHANGED <<argv, inpath, outpath, width, height, img, resized, w, h,
                   x, y, fs, fs0, pos, outHandle, stdout, failure, runs>>

Next ==
    \/ \E a \in Argvs : Invoke(a)
    \/ MainUsage
    \/ MainConvert
    \/ LoadImage
    \/ Finalize
    \/ ResizeImage
    \/ OpenOutput
    \/ WritePixel
    \/ WriteError
    \/ CloseOutput
    \/ Exit

Spec == Init /\ [][Next]_vars

SpecCompare == InitCompare /\ [][Next]_vars

-----------------------------------------------------------------------------
(* Vocabulary of the properties *)

\* convert was called: its parameters are bound
ConvertCalled == inpath # ""

\* convert returned normally
ConvertReturned == pc = "returned" \/ (pc = "exited" /\ exitcode = 0)

\* convert ended, by return or by exception
ConvertEnded == ConvertCalled /\ pc \in {"returned", "raised"}

\* the process is past lines 28-31
PastResize ==
    \/ pc \in {"open", "loop", "returned"}
    \/ pc \in {"raised", "exited"} /\ failure \in {"open", "write"}
    \/ pc = "exited" /\ exitcode = 0

Source == InputFile(inpath)

BothProvided == width.some /\ height.some
BothNonzero == BothProvided /\ width.val # 0 /\ height.val # 0
SomeZero == (width.some /\ width.val = 0) \/ (height.some /\ height.val = 0)

Printed(stream, kind) == \E i \in 1..Len(stream) : stream[i].kind = kind

\* the XRGB8888 buffer of an image: per pixel, row-major, the bytes B G R 00
Buffer(im) ==
    [i \in 1..(4 * im.w * im.h) |->
        LET k == (i - 1) \div 4
            p == im.px[(k \div im.w) + 1][(k % im.w) + 1]
            j == (i - 1) % 4
        IN  IF j = 3 THEN 0 ELSE p[3 - j]]

-----------------------------------------------------------------------------
(* C1: after convert returns, the output file is exactly W*H*4 bytes long, *)
(* W and H being the width and height of the final (possibly resized)      *)
(* image.                                                                  *)
C1_OutputLength ==
    ConvertReturned =>
        /\ fs[outpath].exists
        /\ Len(fs[outpath].data) = img.w * img.h * 4
        /\ w = img.w /\ h = img.h

C1_Witness ==
    /\ ConvertReturned
    /\ resized
    /\ img.w = 1 /\ img.h = 2
    /\ Len(fs[outpath].data) = 8

(* C2: after convert returns, for every pixel (x,y) of the final image the *)
(* four bytes at offset 4*(y*W+x) are B, G, R, 0x00: the little-endian     *)
(* word (R<<16)|(G<<8)|B; reading the word back and masking it to 24 bits  *)
(* gives (R,G,B) again, and its top byte is 0.                             *)
C2_PixelLayout ==
    ConvertReturned =>
        \A yy \in 0..(img.h - 1) : \A xx \in 0..(img.w - 1) :
            LET o == 4 * (yy * img.w + xx)
                d == fs[outpath].data
                p == img.px[yy + 1][xx + 1]
            IN  /\ \A c \in 1..3 : p[c] \in 0..255
                /\ Len(d) >= o + 4
                /\ <<d[o + 1], d[o + 2], d[o + 3], d[o + 4]>>
                     = <<p[3], p[2], p[1], 0>>
                /\ LET word == d[o + 1] + 256 * d[o + 2] + 65536 * d[o + 3]
                                 + 16777216 * d[o + 4]
                       low  == word % 16777216
                   IN  /\ word \div 16777216 = 0
                       /\ <<low \div 65536, (low \div 256) % 256, low % 256>> = p

C2_Witness ==
    /\ ConvertReturned
    /\ ~resized
    /\ img.w = 2 /\ img.h = 2
    /\ SubSeq(fs[outpath].data, 5, 8) = <<86, 52, 18, 0>>
    /\ SubSeq(fs[outpath].data, 9, 12) = <<1, 255, 0, 0>>

(* C3, as claimed: convert resizes if and only if both target_width and    *)
(* target_height are provided; then the output dimensions are exactly      *)
(* (target_width, target_height), otherwise those of the source image.     *)
C3_ResizeIffBothProvided ==
    PastResize =>
        /\ resized <=> BothProvided
        /\ BothProvided => img.w = width.val /\ img.h = height.val
        /\ ~BothProvided => img.w = Source.w /\ img.h = Source.h

(* C3, amended: convert takes the resize step if and only if both target   *)
(* dimensions are provided and non-zero; when it takes it and goes on, the *)
(* output dimensions are exactly (target_width, target_height), with the   *)
(* output file sized accordingly; otherwise the step is skipped and the    *)
(* output dimensions are those of the source image.                        *)
C3_ResizeIffBothNonzero ==
    /\ failure = "resize" => BothNonzero
    /\ PastResize =>
        /\ resized <=> BothNonzero
        /\ BothNonzero => img.w = width.val /\ img.h = height.val
        /\ ~BothNonzero => img.w = Source.w /\ img.h = Source.h
    /\ ConvertReturned => Len(fs[outpath].data) = 4 * img.w * img.h

C3_Witness ==
    /\ ConvertReturned
    /\ resized
    /\ width = Some(1) /\ height = Some(2)
    /\ img.w = 1 /\ img.h = 2
    /\ Source.w = 2 /\ Source.h = 2

(* C4: a process started with fewer than 2 positional arguments exits with *)
(* status 1, has printed the usage message to standard error, has not      *)
(* called convert and has left every output file as it was.                *)
C4_UsageToStderr ==
    (pc = "exited" /\ Len(argv) < 3) =>
        /\ exitcode = 1
        /\ Printed(stderr, "usage")
        /\ ~ConvertCalled
        /\ fs = fs0

(* C5: on the command line only len(argv) > 4 triggers the resize; with    *)
(* exactly 3 positional arguments convert is called with both dimensions   *)
(* absent, so the width is ignored and the output has the source's         *)
(* dimensions.                                                             *)
C5_ResizeNeedsFourArgs ==
    /\ resized => Len(argv) > 4
    /\ (ConvertCalled /\ Len(argv) > 4) => BothProvided
    /\ (ConvertCalled /\ Len(argv) <= 4) => width = None /\ height = None
    /\ (pc # "main" /\ Len(argv) = 4) => ConvertCalled /\ failure # "ValueError"
    /\ (ConvertReturned /\ Len(argv) = 4) =>
          /\ ~resized
          /\ img.w = Source.w /\ img.h = Source.h
          /\ Len(fs[outpath].data) = 4 * Source.w * Source.h

C5_Witness ==
    /\ ConvertReturned
    /\ Len(argv) = 4
    /\ argv[4] = <<"1">>
    /\ width = None /\ height = None
    /\ img.w = 2 /\ img.h = 2

(* C6: after convert returns, the file at output_path holds exactly the    *)
(* newly produced buffer, whatever it held before: created if absent,      *)
(* fully replaced if present, even when the previous content was longer.   *)
C6_FullyReplaced ==
    ConvertReturned => fs[outpath] = File(Buffer(img))

C6_Witness ==
    /\ ConvertReturned
    /\ fs0[outpath].exists
    /\ Len(fs0[outpath].data) > 4 * img.w * img.h
    /\ fs[outpath].data # fs0[outpath].data

(* C7: two successful converts with the same input image and the same      *)
(* target dimensions produce byte-identical output files, whatever the     *)
(* output paths and whatever the output file held before.                  *)
C7_SameInputSameBytes ==
    (/\ ConvertReturned
     /\ ref.state = "set"
     /\ ref.inpath = inpath /\ ref.width = width /\ ref.height = height)
        => fs[outpath].data = ref.data

\* a second conversion, over an older file, agreeing with a remembered one
C7_Witness ==
    /\ pc = "returned"
    /\ ref.state = "set"
    /\ ref.inpath = inpath /\ ref.width = width /\ ref.height = height
    /\ resized
    /\ fs0[outpath] = Stale

(* C8: in no terminal state of convert (normal return or error) is the     *)
(* input file handle or the output file handle still held.                 *)
C8_HandlesReleased ==
    ConvertEnded => inHandle # "held" /\ outHandle # "held"

(* C9: decode and resize complete before the output file is opened: until  *)
(* the open of line 34 has succeeded the output files are as the process   *)
(* found them, and a convert that fails in decode or resize leaves them    *)
(* so, prints no summary and ends the process with an error.               *)
C9_OutputUntouchedBeforeOpen ==
    /\ outHandle = "none" => fs = fs0
    /\ outHandle # "none" =>
          /\ img # NoImage
          /\ BothNonzero => resized
    /\ failure \in {"decode", "resize"} =>
          /\ fs = fs0
          /\ outHandle = "none"
          /\ ~Printed(stdout, "summary")
          /\ pc = "exited" => exitcode = 1 /\ Printed(stderr, "traceback")

C9_Witness ==
    /\ pc = "exited"
    /\ failure = "resize"
    /\ fs0[outpath] = Stale
    /\ fs[outpath] = Stale

(* C10: a target dimension of 0 is treated as absent: no error is raised   *)
(* for it, the resize step is skipped, and the output has the source       *)
(* image's dimensions and W_src*H_src*4 bytes; "0" on the command line     *)
(* reaches convert as 0.                                                   *)
C10_ZeroIsAbsent ==
    /\ (ConvertCalled /\ Len(argv) > 4 /\ argv[4] = <<"0">>) => width = Some(0)
    /\ (ConvertCalled /\ Len(argv) > 4 /\ argv[5] = <<"0">>) => height = Some(0)
    /\ SomeZero =>
          /\ ~resized
          /\ failure \notin {"resize", "ValueError"}
    /\ (SomeZero /\ ConvertReturned) =>
          /\ img.w = Source.w /\ img.h = Source.h
          /\ Len(fs[outpath].data) = 4 * Source.w * Source.h

C10_Witness ==
    /\ ConvertReturned
    /\ Len(argv) = 5
    /\ argv[4] = <<"0">> /\ argv[5] = <<"1">>
    /\ width = Some(0) /\ height = Some(1)
    /\ img.w = 2 /\ img.h = 2
    /\ Len(fs[outpath].data) = 16

====
